---- MODULE Spec2Model ----
(***************************************************************************)
(* Model of the Overpass query subsystem and the Google news client:       *)
(*   data/service/osm_client.py   AsyncOverpassClient (permit pool, batch) *)
(*   data/input/osm_input.py      OverpassQuery (slot gate, retry loop)    *)
(*   osint_assistant/tools/overpass/overpass_struct_tool.py                *)
(*   data/service/google_news_client.py, data/storage/                     *)
(*   osint_google_news_db.py                                               *)
(*                                                                         *)
(* Spec      : AsyncOverpassClient.run_all over a batch of NumQueries      *)
(*             query objects, one asyncio task per query; a step of a task *)
(*             is the code between two awaits.                             *)
(* SpecFair  : Spec with the event loop's fairness, for termination.       *)
(* SpecExec  : one call of OverpassQuery.run, AsyncOverpassClient.         *)
(*             _run_query or OverpassQuery._wait_for_slot, with the full   *)
(*             trace of transport responses recorded.                      *)
(* SpecBuild : OverpassQuery._format_tags and _build_query on a query      *)
(*             object drawn from BuildObjects; a text is the sequence of   *)
(*             its pieces (strings), read concatenated.                    *)
(* SpecDecode: OverpassQuery.json_to_geodataframe on a list of raw         *)
(*             elements drawn from SampleElements, one loop iteration per  *)
(*             step.                                                       *)
(* SpecTool:   OverpassStructuredTool.query_region on one query, decoding  *)
(*             the payload with the steps of SpecDecode.                   *)
(* SpecGoogle: BaseGoogleService._execute_with_retries on a request        *)
(*             function whose every call succeeds or raises.               *)
(* SpecNews:   google_news_client.main on the items a search returns.      *)
(***************************************************************************)
EXTENDS Integers, Sequences, FiniteSets, TLC

\* ------------------------------------------------------------------ bounds
\* size of the batch handed to run_all
NumQueries == 3
\* largest max_concurrent the client is built with
MaxConcurrent == 2
\* largest max_retries a query object is built with
MaxRetriesBound == 3

\* largest max_wait _wait_for_slot is called with directly
MaxWaitBound == 12
\* largest number of entries of a tags mapping
MaxTags == 2
\* largest number of raw elements in a payload
MaxElements == 2
\* largest number of items a search returns
MaxItems == 3

\* time.sleep(5); waited += 5 in _wait_for_slot
PollInterval == 5
\* def _wait_for_slot(self, max_wait: int = 60), the value run() uses
DefaultMaxWait == 60

Queries == 1..NumQueries

\* ------------------------------------------------------- transport responses
\* HTTP statuses the transport answers with.
Statuses == {200, 204, 404, 429, 500, 503}

\* What the body of a 200 response does when the result is assembled from it:
\*   "ok"              it parses
\*   "transport_error" parsing raises an exception of the class the retry loop
\*                     catches (aiohttp.ContentTypeError is a ClientError,
\*                     requests' JSONDecodeError is a RequestException)
\*   "error"           parsing raises any other exception (pandas EmptyDataError,
\*                     json ValueError, AttributeError in json_to_geodataframe)
Bodies == {"ok", "transport_error", "error"}

\* One answer of the transport to one HTTP attempt: a response, a connection
\* level failure (requests.RequestException / aiohttp.ClientError) or any other
\* exception raised by the call (e.g. asyncio.TimeoutError).
HttpResponses == [kind : {"http"}, status : Statuses, body : Bodies]
Responses ==
    {r \in HttpResponses : r.status # 200 => r.body = "ok"}
        \cup {[kind |-> "connection_error", status |-> 0, body |-> "ok"],
              [kind |-> "exception", status |-> 0, body |-> "ok"]}

\* ------------------------------------------------------------ query objects
\* bbox = <<>> stands for None (both are falsy in _build_main_query).
SampleBBox == <<1, 2, 3, 4>>
QueryObjects ==
    [area_name : {"", "Berlin"}, bbox : {<<>>, SampleBBox},
     max_retries : 0..MaxRetriesBound]

\* _build_main_query raises ValueError when neither bbox nor area_name is set;
\* _build_query calls it before anything else can fail.
BuildRaises(query_obj) == query_obj.bbox = <<>> /\ query_obj.area_name = ""

\* outcomes of one coroutine / call
Running == <<"running">>
ReturnedNone == <<"None">>
ReturnedData(q) == <<"data", q>>
Raised(what) == <<"raised", what>>
IsRaised(out) == out[1] = "raised"

\* ----------------------------------------------- AsyncOverpassClient._run_query
\* What _run_query does with the answer to one attempt (lines 21-34):
\*   "return"  status 200 and the body is assembled into the result
\*   "sleep"   await asyncio.sleep(retry_delay), then the next loop iteration
\*   "raise"   an exception leaves the loop
AsyncOnResponse(resp) ==
    IF resp.kind = "connection_error" THEN "sleep"
    ELSE IF resp.kind = "exception" THEN "raise"
    ELSE IF resp.status = 200
         THEN CASE resp.body = "ok" -> "return"
                [] resp.body = "transport_error" -> "sleep"
                [] OTHER -> "raise"
         ELSE "sleep"

\* -------------------------------------------------------- OverpassQuery.run
\* the statuses run() retries (line 231)
RetryableStatuses == {429, 500, 503}

\* bug variant: every non-200 status is slept on and retried
RunOnResponse_RetryAll(resp) == AsyncOnResponse(resp)

\* What run() does with the answer to one attempt (lines 221-239):
\*   "return"       status 200 and the body is assembled into the result
\*   "sleep"        time.sleep(retry_delay), then the next loop iteration
\*   "return_None"  any other status: return None at once
\*   "raise"        an exception leaves the loop
RunOnResponse(resp) ==
    IF resp.kind = "connection_error" THEN "sleep"
    ELSE IF resp.kind = "exception" THEN "raise"
    ELSE IF resp.status = 200
         THEN CASE resp.body = "ok" -> "return"
                [] resp.body = "transport_error" -> "sleep"
                [] OTHER -> "raise"
         ELSE IF resp.status \in RetryableStatuses THEN "sleep"
         ELSE "return_None"

\* ------------------------------------------------- the result of a 200 answer
\* output and parse_geometry of the query object
Formats == [output : {"csv", "json", "xml"}, parse_geometry : BOOLEAN]
DefaultFormat == [output |-> "json", parse_geometry |-> FALSE]
\* what a body that parses holds
Contents == {"elements", "no_elements", "table"}
NoShape == [kind |-> "none", of |-> "none"]

\* bug variant: the kind of result is guessed from the body
ResultShape_Sniffed(output, parse_geometry, content) ==
    IF content = "table" THEN [kind |-> "DataFrame", of |-> content]
    ELSE IF content = "elements" THEN [kind |-> "GeoDataFrame", of |-> content]
    ELSE [kind |-> "dict", of |-> content]

\* run lines 224-230 and _run_query lines 24-31, which are the same chain:
\* pd.read_csv for csv; for json the decoded payload, or json_to_geodataframe
\* of it with parse_geometry; the text otherwise
ResultShape(output, parse_geometry, content) ==
    IF output = "csv" THEN [kind |-> "DataFrame", of |-> content]
    ELSE IF output = "json"
         THEN IF parse_geometry THEN [kind |-> "GeoDataFrame", of |-> content]
              ELSE [kind |-> "dict", of |-> content]
    ELSE [kind |-> "text", of |-> content]

\* bug variant: one iteration too many
MoreAttempts_OffByOne(n, max_retries) == n <= max_retries

\* `for attempt in range(self.max_retries)`: is there an iteration after n attempts
MoreAttempts(n, max_retries) == n < max_retries

\* bug variant: exhausted retries raise instead of returning the sentinel
AfterLoop_Raises == Raised("RetryError")

\* the statement after the loop: return None (run, line 241); _run_query falls
\* off its end, which returns None as well
AfterLoop == ReturnedNone

\* ------------------------------------------- OverpassQuery._check_availability
\* The body of a status response, as its words; a marker is found in it when its
\* words occur in it consecutively.
StatusBodies ==
    {<<"2", "slots", "available", "now">>,
     <<"Slot", "available", "after", "12:00">>,
     <<"slot", "available">>,
     <<"Rate", "limit", "0">>,
     <<>>}

Contains(text, marker) ==
    \E i \in 0..(Len(text) - Len(marker)) :
        \A j \in 1..Len(marker) : text[i + j] = marker[j]

\* answers of the status endpoint to one probe
ProbeResponses ==
    [kind : {"http"}, status : {200, 503}, body : StatusBodies]
        \cup {[kind |-> "connection_error", status |-> 0, body |-> <<>>]}

\* no probe answered yet
NoProbe == [kind |-> "none", status |-> 0, body |-> <<>>]

\* bug variant: a failed status request counts as a free slot
CheckAvailability_FailOpen(probe) ==
    IF probe.kind = "connection_error" THEN "True"
    ELSE IF probe.status = 200
         THEN IF \/ Contains(probe.body, <<"Slot", "available">>)
                 \/ Contains(probe.body, <<"available", "now">>)
                 \/ Contains(probe.body, <<"slots", "available">>)
              THEN "True"
              ELSE "False"
         ELSE "None"

\* lines 112-126: True / False, or None when the status is not 200 (the
\* function then falls off its end)
CheckAvailability(probe) ==
    IF probe.kind = "connection_error" THEN "False"
    ELSE IF probe.status = 200
         THEN IF \/ Contains(probe.body, <<"Slot", "available">>)
                 \/ Contains(probe.body, <<"available", "now">>)
              THEN "True"
              ELSE IF Contains(probe.body, <<"slots", "available">>) THEN "True"
              ELSE "False"
         ELSE "None"

\* `if self._check_availability():`
Truthy(value) == value = "True"

\* bug variant: the loop also runs when waited has reached max_wait
SlotLoopGoesOn_Inclusive(w, maxw) == w <= maxw

\* `while waited < max_wait` (line 130)
SlotLoopGoesOn(w, maxw) == w < maxw

\* ------------------------------------------------- OverpassQuery query text
\* A text is a sequence of strings, standing for their concatenation. A tag
\* value is a record: t is its Python type, b its truth value when a bool, s its
\* characters when a str.
VBool(b) == [t |-> "bool", b |-> b, s |-> <<>>]
VStr(chars) == [t |-> "str", b |-> FALSE, s |-> chars]
VInt == [t |-> "int", b |-> FALSE, s |-> <<>>]

TagKeys == {"amenity", "name", "shop"}
TagValues ==
    {VBool(TRUE), VBool(FALSE), VInt,
     VStr(<<"b", "a", "r">>), VStr(<<>>),
     VStr(<<"~", "f", "o", "o">>), VStr(<<"~">>),
     VStr(<<"a", "|", "b">>), VStr(<<"~", "a", "|", "b">>)}

\* a tags dict in its stored order: a sequence of <<key, value>> with unique keys
TagMappings ==
    {m \in UNION {[1..n -> TagKeys \X TagValues] : n \in 0..MaxTags} :
        \A i, j \in DOMAIN m : m[i][1] = m[j][1] => i = j}

\* v.startswith("~") and "|" in v
StartsWithTilde(chars) == Len(chars) > 0 /\ chars[1] = "~"
HasBar(chars) == \E i \in DOMAIN chars : chars[i] = "|"

\* bug variant: the alternation test comes before the '~' test
FormatTag_BarFirst(k, v) ==
    IF v.t = "bool" /\ v.b THEN <<"[", k, "]">>
    ELSE IF v.t = "bool" THEN <<"[", "!", k, "]">>
    ELSE IF v.t = "str"
         THEN IF HasBar(v.s)
              THEN <<"[", k, "~", "\"", "^">> \o v.s \o <<"$", "\"", "]">>
              ELSE IF StartsWithTilde(v.s)
              THEN <<"[", k, "~", "\"">> \o Tail(v.s) \o <<"\"", "]">>
              ELSE <<"[", k, "=", "\"">> \o v.s \o <<"\"", "]">>
         ELSE <<>>

\* one iteration of the loop of _format_tags (lines 45-55): what is appended
\* to tag_queries for the entry k: v (nothing when v is neither bool nor str)
FormatTag(k, v) ==
    IF v.t = "bool" /\ v.b THEN <<"[", k, "]">>
    ELSE IF v.t = "bool" THEN <<"[", "!", k, "]">>
    ELSE IF v.t = "str"
         THEN IF StartsWithTilde(v.s)
              THEN <<"[", k, "~", "\"">> \o Tail(v.s) \o <<"\"", "]">>
              ELSE IF HasBar(v.s)
              THEN <<"[", k, "~", "\"", "^">> \o v.s \o <<"$", "\"", "]">>
              ELSE <<"[", k, "=", "\"">> \o v.s \o <<"\"", "]">>
         ELSE <<>>

\* _format_tags (lines 42-56): "".join of the entries' filters in dict order
RECURSIVE FormatTags(_)
FormatTags(tags) ==
    IF tags = <<>> THEN <<>>
    ELSE FormatTag(tags[1][1], tags[1][2]) \o FormatTags(Tail(tags))

\* sep.join(parts), parts a sequence of texts
RECURSIVE Join(_, _)
Join(sep, parts) ==
    IF parts = <<>> THEN <<>>
    ELSE IF Len(parts) = 1 THEN parts[1]
    ELSE parts[1] \o sep \o Join(sep, Tail(parts))

\* str(x) of each component
StrEach(xs) == [i \in DOMAIN xs |-> <<ToString(xs[i])>>]
Each(xs) == [i \in DOMAIN xs |-> <<xs[i]>>]

\* _build_area_query (lines 58-61)
BuildAreaQuery(o) ==
    IF o.area_name = "" THEN <<>>
    ELSE <<"area", "[name=\"", o.area_name, "\"]", "[admin_level]", ";">>

\* the location clause of _build_main_query (lines 66-71); not reached when
\* BuildRaises
Location(o) ==
    IF o.bbox # <<>> THEN <<"(">> \o Join(<<",">>, StrEach(o.bbox)) \o <<")">>
    ELSE <<"(area)">>

\* _build_main_query (lines 63-75): one statement per element type, joined
\* by newlines
BuildMainQuery(o) ==
    Join(<<"\n">>,
         [i \in DOMAIN o.element_types |->
             <<o.element_types[i]>> \o FormatTags(o.tags) \o Location(o) \o <<";">>])

\* line breaks of the templates of _build_query with the indentation that
\* follows them (12 and 16 spaces)
NL12 == "\n            "
NL16 == "\n                "

\* the three endings of the query text
OutCenter == <<"out center;">>
OutGeom == <<"out geom;">>
OutRecursive == <<"out body;", NL12, ">;", NL12, "out skel qt;">>

\* the shape shared by the three templates (lines 83-110), after .strip()
Template(o, header, ending) ==
    header \o <<"[timeout:", ToString(o.timeout), "]", ";", NL12>>
        \o BuildAreaQuery(o)
        \o <<NL12, "(", NL16>> \o BuildMainQuery(o) \o <<NL12, ");", NL12>>
        \o ending

\* bug variant: the geometry template is chosen for every json query
BuildQuery_GeomForAllJson(o) ==
    IF o.output = "csv" /\ o.csv_fields # <<>>
    THEN Template(o, <<"[out:", "csv", "(">> \o Join(<<",">>, Each(o.csv_fields))
                         \o <<")", "]">>, OutCenter)
    ELSE IF o.output = "json"
    THEN Template(o, <<"[out:", "json", "]">>, OutGeom)
    ELSE Template(o, <<"[out:", o.output, "]">>, OutRecursive)

\* _build_query (lines 77-110) on an object for which _build_main_query does
\* not raise
BuildQuery(o) ==
    IF o.output = "csv" /\ o.csv_fields # <<>>
    THEN Template(o, <<"[out:", "csv", "(">> \o Join(<<",">>, Each(o.csv_fields))
                         \o <<")", "]">>, OutCenter)
    ELSE IF o.output = "json" /\ o.parse_geometry
    THEN Template(o, <<"[out:", "json", "]">>, OutGeom)
    ELSE Template(o, <<"[out:", o.output, "]">>, OutRecursive)

\* The query objects the builder is run on: every tags mapping on a default
\* object, and every combination of the other fields with a two-entry mapping.
DefaultTags == <<<<"amenity", VStr(<<"a", "|", "b">>)>>, <<"name", VBool(TRUE)>>>>
BuildObjects ==
    [tags : TagMappings, bbox : {<<>>}, area_name : {"Berlin"},
     element_types : {<<"node", "way", "relation">>}, timeout : {25},
     output : {"json"}, csv_fields : {<<>>}, parse_geometry : {FALSE}]
    \cup
    [tags : {DefaultTags}, bbox : {<<>>, SampleBBox}, area_name : {"", "Berlin"},
     element_types : {<<"node", "way", "relation">>, <<"way">>, <<>>},
     timeout : {25, 90}, output : {"csv", "json", "xml"},
     csv_fields : {<<>>, <<"name", "::id">>}, parse_geometry : BOOLEAN]


\* ------------------------------------------ OverpassQuery.json_to_geodataframe
\* A JSON value of an element: <<kind, n>>. "num" is a finite number n, "nan"
\* and "inf" the non-finite floats, "str" a non-numeric value, "missing" an
\* absent key; "text" is a tag value that is no integer literal, "digits" a
\* tag value that is the decimal text of the integer n.
Num(n) == <<"num", n>>
NaN == <<"nan", 0>>
Inf == <<"inf", 0>>
NonNumeric == <<"str", 0>>
Missing == <<"missing", 0>>
Text(n) == <<"text", n>>
Digits(n) == <<"digits", n>>

\* math.isfinite(x) is True / raises TypeError
IsFinite(x) == x[1] = "num"
IsFiniteRaises(x) == x[1] \notin {"num", "nan", "inf"}

Pt(lon, lat) == [lon |-> lon, lat |-> lat]
P00 == Pt(Num(0), Num(0))
P10 == Pt(Num(1), Num(0))
P11 == Pt(Num(1), Num(1))

\* A raw element. shape "list" is an element that is no mapping; has_geometry
\* tells whether the key "geometry" is present; tags is the tag mapping in its
\* stored order ({} when the key is absent).
Element(type, id, lat, lon, has_geometry, geometry, tags) ==
    [shape |-> "dict", type |-> type, id |-> id, lat |-> lat, lon |-> lon,
     has_geometry |-> has_geometry, geometry |-> geometry, tags |-> tags]
Node(id, lat, lon, tags) == Element("node", id, lat, lon, FALSE, <<>>, tags)
Way(id, geometry) ==
    Element("way", id, Missing, Missing, TRUE, geometry, <<<<"highway", Text(1)>>>>)
NotAMapping == [Element("node", Num(9), Num(0), Num(0), FALSE, <<>>, <<>>)
                    EXCEPT !.shape = "list"]

SampleNodes ==
    {Node(Num(1), Num(0), Num(1), <<<<"name", Text(1)>>>>),
     Node(Num(2), NaN, Num(0), <<>>),
     Node(Num(3), Num(0), Inf, <<>>),
     Node(Num(4), Missing, Num(0), <<>>),
     Node(Num(5), NonNumeric, Num(0), <<>>),
     Node(Num(6), Num(0), Num(0), <<<<"id", Text(2)>>, <<"name", Text(1)>>>>),
     Node(Num(7), Num(1), Num(1), <<<<"geometry", Text(3)>>>>),
     Node(Num(8), Num(0), Num(0), <<<<"id", Digits(122)>>>>),
     Node(Num(41), Num(0), Num(1), <<<<"amenity", Text(5)>>, <<"name", Text(1)>>>>),
     Node(Missing, Num(0), Num(0), <<>>)}
SampleWays ==
    {Way(Num(11), <<P00, P10, P11, P00>>),
     Way(Num(12), <<P00, P10, P11>>),
     Way(Num(13), <<P00, P10, P00>>),
     Way(Num(14), <<P11>>),
     Way(Num(15), <<P00, Pt(NaN, Num(1)), P10, P11, Pt(Num(1), Inf), P00>>),
     Way(Num(16), <<Pt(NaN, Num(0)), Pt(Num(0), Inf)>>),
     Way(Num(17), <<P00, Pt(Missing, Num(1)), P10>>),
     Way(Num(18), <<P00, Pt(Num(1), NonNumeric), P10>>),
     Way(Num(19), <<P00, P00>>),
     Way(Num(20), <<P00, Pt(NaN, NonNumeric), P10>>),
     Element("way", Num(21), Missing, Missing, FALSE, <<>>, <<>>)}
SampleOthers ==
    {Element("relation", Num(31), Num(0), Num(0), TRUE, <<P00, P10, P11, P00>>,
             <<<<"type", Text(4)>>>>),
     Element("area", Num(32), Num(0), Num(0), FALSE, <<>>, <<>>),
     Element("missing", Num(33), Num(0), Num(0), FALSE, <<>>, <<>>),
     NotAMapping}
SampleElements == SampleNodes \cup SampleWays \cup SampleOthers

\* osm_json["elements"]
Payloads == UNION {[1..n -> SampleElements] : n \in 0..MaxElements}

\* osm_json: a mapping with an element list, or one without the key "elements"
Payload(has_elements, elems) == [has_elements |-> has_elements, elements |-> elems]
NoPayload == Payload(FALSE, <<>>)
OsmJsons == {Payload(TRUE, elems) : elems \in Payloads} \cup {NoPayload}

\* a GeoDataFrame: its columns and its rows
Frame(columns, rows) == [columns |-> columns, rows |-> rows]
NoFrame == Frame(<<>>, <<>>)
\* line 175: GeoDataFrame(columns=["id", "tags", "geometry"], ...)
EmptyFrame == Frame(<<"id", "tags", "geometry">>, <<>>)

\* the test of the list comprehension of line 184 on one point:
\* math.isfinite(pt["lon"]) and math.isfinite(pt["lat"]); pt["lat"] is only
\* looked at when the longitude is finite
PointRaises(pt) ==
    \/ pt.lon = Missing
    \/ IsFiniteRaises(pt.lon)
    \/ IsFinite(pt.lon) /\ (pt.lat = Missing \/ IsFiniteRaises(pt.lat))
PointKept(pt) == IsFinite(pt.lon) /\ IsFinite(pt.lat)

\* coords of line 184, for a point list on which the test does not raise
RECURSIVE FilterCoords(_)
FilterCoords(pts) ==
    IF pts = <<>> THEN <<>>
    ELSE IF PointKept(pts[1]) THEN <<<<pts[1].lon, pts[1].lat>>>> \o FilterCoords(Tail(pts))
    ELSE FilterCoords(Tail(pts))

Geom(gtype, coords) == [gtype |-> gtype, coords |-> coords]
NoGeom == Geom("None", <<>>)

\* The shapely constructors called on lines 182, 188, 190 raise on input they
\* cannot build a geometry from: Point on a non-numeric coordinate, Polygon on
\* a ring of fewer than 4 coordinates, LineString on a single coordinate.
PointCtorRaises(lon, lat) == lon[1] \notin {"num", "nan", "inf"} \/ lat[1] \notin {"num", "nan", "inf"}
PolygonCtorRaises(coords) == Len(coords) < 4
LineStringCtorRaises(coords) == Len(coords) < 2

\* bug variant: no validation of the coordinates
IsValidGeometry_Always(geom) == TRUE

\* is_valid_geometry (lines 137-163): every coordinate component is finite
IsValidGeometry(geom) ==
    /\ geom # NoGeom
    /\ \A i \in DOMAIN geom.coords :
          IsFinite(geom.coords[i][1]) /\ IsFinite(geom.coords[i][2])

\* what one loop iteration does with its element
Skip == [kind |-> "skip", geom |-> NoGeom]
Abort == [kind |-> "abort", geom |-> NoGeom]
Keep(geom) == [kind |-> "record", geom |-> geom]

\* lines 183-190 for a way
DecodeWay(el) ==
    IF \E i \in DOMAIN el.geometry : PointRaises(el.geometry[i]) THEN Skip
    ELSE LET coords == FilterCoords(el.geometry) IN
         IF coords = <<>> THEN Skip
         ELSE IF coords[1] = coords[Len(coords)] /\ Len(coords) >= 3
         THEN IF PolygonCtorRaises(coords) THEN Skip
              ELSE Keep(Geom("Polygon", coords))
         ELSE IF LineStringCtorRaises(coords) THEN Skip
              ELSE Keep(Geom("LineString", coords))

\* lines 180-182 for a node
DecodeNode(el) ==
    IF el.lat # Missing /\ el.lon # Missing
    THEN IF PointCtorRaises(el.lon, el.lat) THEN Skip
         ELSE Keep(Geom("Point", <<<<el.lon, el.lat>>>>))
    ELSE Skip

\* bug variant: a relation that carries coordinates is decoded like a node
DecodeGeometry_RelationAsNode(el) ==
    IF el.shape # "dict" THEN Abort
    ELSE IF el.type = "missing" THEN Skip
    ELSE IF el.type \in {"node", "relation"} THEN DecodeNode(el)
    ELSE IF el.type = "way" THEN DecodeWay(el)
    ELSE Skip

\* lines 178-196 and 210-212: the geometry of one element. el["type"] on an
\* element that is no mapping raises TypeError, and the handler's el.get then
\* raises AttributeError out of the function; a missing "type" raises KeyError,
\* which the handler survives.
DecodeGeometry(el) ==
    IF el.shape # "dict" THEN Abort
    ELSE IF el.type = "missing" THEN Skip
    ELSE IF el.type = "node" THEN DecodeNode(el)
    ELSE IF el.type = "way" THEN DecodeWay(el)
    ELSE Skip

\* tags[key] for a key the mapping has
RECURSIVE TagValue(_, _)
TagValue(tags, key) ==
    IF tags[1][1] = key THEN tags[1][2] ELSE TagValue(Tail(tags), key)
HasTag(tags, key) == \E i \in DOMAIN tags : tags[i][1] = key

\* the other entries of the record: the tags whose key is not id or geometry
OtherTags(tags) == SelectSeq(tags, LAMBDA kv : kv[1] \notin {"id", "geometry"})

\* lines 202-207: {"id": el["id"], **tags, "geometry": geom} - a tag "id"
\* replaces the element's id, a tag "geometry" is replaced by the geometry.
\* `from` is the position of the element in the payload.
MakeRecord(el, geom, from) ==
    [id |-> IF HasTag(el.tags, "id") THEN TagValue(el.tags, "id") ELSE el.id,
     geometry |-> geom,
     tags |-> OtherTags(el.tags),
     from |-> from]

\* the keys of that dict in order: id, the tag keys, geometry (where the tags
\* put it, if they have it)
RecordKeys(el) ==
    LET keys == [i \in DOMAIN el.tags |-> el.tags[i][1]]
        tagKeys == SelectSeq(keys, LAMBDA k : k # "id") IN
    <<"id">> \o tagKeys \o (IF HasTag(el.tags, "geometry") THEN <<>> ELSE <<"geometry">>)

\* keys of `more` that `columns` lacks, in order
RECURSIVE NewKeys(_, _)
NewKeys(columns, more) ==
    IF more = <<>> THEN <<>>
    ELSE IF \E i \in DOMAIN columns : columns[i] = more[1]
         THEN NewKeys(columns, Tail(more))
         ELSE <<more[1]>> \o NewKeys(Append(columns, more[1]), Tail(more))

\* the columns of a frame built from a list of dicts: every key, in the order
\* of its first appearance
RECURSIVE ColumnsOf(_, _)
ColumnsOf(elems, recs) ==
    IF recs = <<>> THEN <<>>
    ELSE LET rest == ColumnsOf(elems, SubSeq(recs, 1, Len(recs) - 1))
         IN rest \o NewKeys(rest, RecordKeys(elems[recs[Len(recs)].from]))

\* one iteration of the loop of lines 177-212
DecodeElement(el) ==
    LET g == DecodeGeometry(el) IN
    IF g.kind # "record" THEN g
    ELSE IF ~IsValidGeometry(g.geom) THEN Skip
    ELSE IF el.id = Missing THEN Skip
    ELSE g


\* ------------------------------------------------- google_news_client.main
\* what item.get("snippet") gives: a text with a leading "... " time part, a
\* text without one, or None when the item has no snippet
Snippets == {"timed", "plain", "None"}
SearchResults == UNION {[1..n -> Snippets] : n \in 0..MaxItems}

\* line 267: re.search on None raises TypeError
ItemRaises(snippet) == snippet = "None"
\* lines 282-289: the tuple appended for item idx
RowOf(idx, snippet) ==
    [item |-> idx, snippet |-> IF snippet = "timed" THEN "time" ELSE "No time given"]

\* GoogleOSINTDB.batch_insert: executemany adds one row per tuple of values
BatchInsert(rows, values) == IF values = <<>> THEN rows ELSE rows \o values

\* --------------------------------------- OverpassStructuredTool.query_region
\* how the one query given to run_all ends: with the sentinel after its last
\* attempt, with a 200 answer that parses, or with an exception
QueryEnds == {"exhausted", "answered", "exception"}
NoToolResult == [count |-> 0 - 1, features |-> <<>>]
ToolResult(features) == [count |-> Len(features), features |-> features]

\* a row of the frame has one cell per column of the frame: the value of the
\* record, or NaN where the record lacks the key
Cell(row, key) == IF HasTag(row.tags, key) THEN TagValue(row.tags, key) ELSE NaN

\* line 68: row.get("amenity") or "feature" - the cell of the column amenity
\* (NaN is truthy), the default when the frame has no such column
FeatureType(columns, row) ==
    IF \E i \in DOMAIN columns : columns[i] = "amenity"
    THEN Cell(row, "amenity")
    ELSE <<"feature", 0>>

\* line 69: every cell of the row but id and geometry
FeatureTags(columns, row) ==
    LET keys == SelectSeq(columns, LAMBDA c : c \notin {"id", "geometry"}) IN
    [i \in DOMAIN keys |-> <<keys[i], Cell(row, keys[i])>>]

\* lines 64-71: the feature of one row. int(row["id"]) raises ValueError on a
\* text that is no integer literal, and OverpassFeature (type: Optional[str],
\* mcp_models.py line 21) raises ValidationError for a type that is NaN
FeatureRaises(columns, row) ==
    row.id[1] \notin {"num", "digits"} \/ FeatureType(columns, row) = NaN
Feature(columns, row) ==
    [id |-> row.id[2], type |-> FeatureType(columns, row),
     tags |-> FeatureTags(columns, row), geometry |-> row.geometry]

\* ------------------------------- BaseGoogleService._execute_with_retries
MAX_RETRIES == 5
\* seconds
INITIAL_BACKOFF == 1

\* what one call of func() does: it returns, raises HttpError with the status
\* of error.resp (0 when error.resp is None), or raises something else
GoogleStatuses == {0, 400, 403, 404, 429, 500, 502, 503, 504}
FuncOutcomes ==
    {[kind |-> "ok", status |-> 200], [kind |-> "other", status |-> 0]}
    \cup {[kind |-> "HttpError", status |-> st] : st \in GoogleStatuses}

\* _should_retry (lines 75-79)
ShouldRetry(error) ==
    IF error.status = 0 THEN TRUE
    ELSE error.status \in {429, 500, 502, 503, 504}

\* bug variant: the last attempt backs off too
MayBackOff_LastToo(n) == n < MAX_RETRIES

\* line 96: attempt < self.MAX_RETRIES - 1
MayBackOff(n) == n < MAX_RETRIES - 1

RECURSIVE Pow2(_)
Pow2(n) == IF n = 0 THEN 1 ELSE 2 * Pow2(n - 1)

\* _sleep_with_backoff (lines 81-85): the base delay, to which
\* random.uniform(0, delay * 0.25) is added; the addition is kept as a
\* percentage of the base
BaseDelay(n) == INITIAL_BACKOFF * Pow2(n)
JitterPercents == {0, 25}


VARIABLES
    queries,      \* Spec: the batch, query id -> query object
    max_concurrent, \* Spec: the max_concurrent the client was constructed with
    semaphore,    \* Spec: self.semaphore._value, the permits free to take
    waiters,      \* Spec: self.semaphore._waiters, the tasks suspended in acquire
    woken,        \* Spec: waiters whose future is set: handed a permit, not yet resumed
    pc,           \* Spec: where each task of the batch is
    attempts,     \* Spec: HTTP attempts each task has issued
    outcome,      \* Spec: how each coroutine ended
    finished,     \* Spec: query ids in the order their coroutines ended
    gated,        \* Spec: queries whose slot gate was consulted and passed
    runAll,       \* Spec: "gathering", "returned" or "raised"
    results,      \* Spec: the list run_all returned
    call,         \* SpecExec: the function called
    self,         \* SpecExec: the query object it is called on
    fmt,          \* SpecExec: its output and parse_geometry
    shape,        \* SpecExec: the kind of result a 200 answer was turned into
    max_wait,     \* SpecExec: max_wait of _wait_for_slot
    step,         \* SpecExec: where the call is
    waited,       \* SpecExec: the local `waited` of _wait_for_slot
    polls,        \* SpecExec: status probes issued
    lastProbe,    \* SpecExec: the status endpoint's latest answer
    trace,        \* SpecExec: the transport's answers to the HTTP attempts
    sleeps,       \* SpecExec: retry_delay sleeps started
    result,       \* SpecExec: how the call ended
    builder,      \* SpecBuild: the query object
    tag_filter,   \* SpecBuild: what _format_tags returned, <<"unset">> before
    query,        \* SpecBuild: what _build_query returned, <<"unset">> before
    built,        \* SpecBuild: "no", "text" or "ValueError"
    osm_json,     \* SpecDecode: the payload json_to_geodataframe is given
    elements,     \* SpecDecode: the local `elements`, osm_json.get("elements", [])
    didx,         \* SpecDecode: position of the loop in elements
    records,      \* SpecDecode: the list `records`
    dstep,        \* SpecDecode: "called", "loop", "returned" or "raised"
    derror,       \* SpecDecode: the exception json_to_geodataframe raised
    frame,        \* SpecDecode: the GeoDataFrame json_to_geodataframe returned
    params,       \* SpecTool: output and parse_geometry of the request
    tstep,        \* SpecTool: "called", "decoding", "classify", "returned", "raised"
    underlying,   \* SpecTool: results[0], the kind of value run_all gave back
    tresult,      \* SpecTool: count and features of the OverpassQueryResult
    results_,     \* SpecNews: the list `results` the search returned
    nstep,        \* SpecNews: "called", "loop", "done", "search_failed", "raised"
    idx,          \* SpecNews: the loop variable of main
    batch_values, \* SpecNews: the list batch_values
    table,        \* SpecNews: the rows inserted into the table
    gstep,        \* SpecGoogle: "call", "sleep", "returned" or "raised"
    attempt,      \* SpecGoogle: the loop variable of _execute_with_retries
    gcalls,       \* SpecGoogle: what each call of func() did
    gsleeps,      \* SpecGoogle: the base delay of each backoff sleep
    jitter,       \* SpecGoogle: percentage added to the latest base delay
    gresult       \* SpecGoogle: what the call returned or raised

batchVars ==
    <<queries, max_concurrent, semaphore, waiters, woken, pc, attempts, outcome, finished, gated, runAll, results>>
execVars ==
    <<call, self, fmt, shape, max_wait, step, waited, polls, lastProbe, trace, sleeps, result>>
buildVars == <<builder, tag_filter, query, built>>
decodeVars == <<osm_json, elements, didx, records, dstep, derror, frame>>
googleVars == <<gstep, attempt, gcalls, gsleeps, jitter, gresult>>
toolVars == <<params, tstep, underlying, tresult>>
newsVars == <<results_, nstep, idx, batch_values, table>>
restVars == <<googleVars, toolVars, newsVars>>
pureVars == <<buildVars, decodeVars, restVars>>
vars == <<batchVars, execVars, pureVars>>

Unset == <<"unset">>

\* no builder call is made (Spec, SpecExec)
BuildIdle ==
    /\ builder = [tags |-> <<>>, bbox |-> <<>>, area_name |-> "",
                  element_types |-> <<>>, timeout |-> 25, output |-> "json",
                  csv_fields |-> <<>>, parse_geometry |-> FALSE]
    /\ tag_filter = Unset
    /\ query = Unset
    /\ built = "idle"

\* json_to_geodataframe is not called (Spec, SpecExec, SpecBuild)
DecodeIdle ==
    /\ osm_json = NoPayload
    /\ elements = <<>>
    /\ didx = 0
    /\ records = <<>>
    /\ dstep = "idle"
    /\ derror = "none"
    /\ frame = NoFrame

\* _execute_with_retries is not called
GoogleIdle ==
    /\ gstep = "idle"
    /\ attempt = 0
    /\ gcalls = <<>>
    /\ gsleeps = <<>>
    /\ jitter = 0
    /\ gresult = "none"

\* query_region is not called
ToolIdle ==
    /\ params = DefaultFormat
    /\ tstep = "idle"
    /\ underlying = "pending"
    /\ tresult = NoToolResult

\* main is not called
NewsIdle ==
    /\ results_ = <<>>
    /\ nstep = "idle"
    /\ idx = 0
    /\ batch_values = <<>>
    /\ table = <<>>

\* nothing else is called
RestIdle == GoogleIdle /\ ToolIdle /\ NewsIdle

PureIdle == BuildIdle /\ DecodeIdle /\ RestIdle

\* no single call is running (Spec)
ExecIdle ==
    /\ call = "none"
    /\ self = [area_name |-> "", bbox |-> <<>>, max_retries |-> 0]
    /\ fmt = DefaultFormat
    /\ shape = NoShape
    /\ max_wait = 0
    /\ step = "idle"
    /\ waited = 0
    /\ polls = 0
    /\ lastProbe = NoProbe
    /\ trace = <<>>
    /\ sleeps = 0
    /\ result = Running

\* AsyncOverpassClient.__init__ (with any max_concurrent from 1 up to the
\* bound) and the moment run_all has called gather: every coroutine is
\* scheduled, none has run yet.
\* The batches explored: area-name queries (bbox None), any of them possibly
\* without an area name, all built with the same max_retries.
Batches ==
    {b \in [Queries -> QueryObjects] :
        \A i, j \in Queries :
            b[i].max_retries = b[j].max_retries /\ b[i].bbox = <<>>}

Init ==
    /\ queries \in Batches
    /\ max_concurrent \in 1..MaxConcurrent
    /\ semaphore = max_concurrent
    /\ waiters = <<>>
    /\ woken = {}
    /\ pc = [q \in Queries |-> "pending"]
    /\ attempts = [q \in Queries |-> 0]
    /\ outcome = [q \in Queries |-> Running]
    /\ finished = <<>>
    /\ gated = {}
    /\ runAll = "gathering"
    /\ results = <<>>
    /\ ExecIdle
    /\ PureIdle

\* the task of q has run its first step: it went past acquire or it waits in it
Started(q) == pc[q] # "pending" \/ \E i \in 1..Len(waiters) : waiters[i] = q

\* gather made one task per coroutine, in argument order, before run_all
\* suspended; the event loop runs the first step of each in that order, and no
\* answer, timer or done-callback is served before all of them have run it
AllStarted == \A q \in Queries : Started(q)

\* asyncio.Semaphore.locked(): no permit is free or a task waits already
\* (no task of the batch is ever cancelled)
Locked(value, ws) == value = 0 \/ ws # <<>>

\* asyncio.Semaphore._wake_up_next: the first waiter whose future is not done
\* is given the permit (the counter is decremented on its behalf) and its
\* future is set; without such a waiter nothing happens
WakeUpNext(value, ws, wk) ==
    LET idle == {i \in 1..Len(ws) : ws[i] \notin wk} IN
    IF idle = {}
    THEN [value |-> value, woken |-> wk]
    ELSE LET first == CHOOSE i \in idle : \A j \in idle : i <= j IN
         [value |-> value - 1, woken |-> wk \cup {ws[first]}]

\* bug variant: acquire lets the task through without taking a permit
SemAcquire_NoDecrement(value) == value

\* bug variant: release gives no permit back
SemRelease_Noop(value, ws, wk) == [value |-> value, woken |-> wk]

\* asyncio.Semaphore.acquire when the semaphore is not locked: the counter is
\* decremented and the task goes on without suspending
SemAcquire(value) == value - 1

\* asyncio.Semaphore.release: the counter is incremented, then _wake_up_next
\* runs; with a task waiting the permit goes to it and the counter is unchanged
SemRelease(value, ws, wk) == WakeUpNext(value + 1, ws, wk)

\* the finally clause of _run_query (line 36), run on every way out of the try
Finally(value, ws, wk) == SemRelease(value, ws, wk)

\* bug variant: release after the loop instead of in a finally clause, so an
\* exception leaves the coroutine with the permit still taken
Exit_LeakOnRaise(q, value, ws, wk, out) ==
    /\ pc' = [pc EXCEPT ![q] = "done"]
    /\ outcome' = [outcome EXCEPT ![q] = out]
    /\ finished' = Append(finished, q)
    /\ semaphore' = IF out[1] = "raised" THEN value ELSE Finally(value, ws, wk).value
    /\ woken' = IF out[1] = "raised" THEN wk ELSE Finally(value, ws, wk).woken
    /\ UNCHANGED attempts

\* the coroutine of q ends with `out`; `value`, `ws` and `wk` are the counter,
\* the waiters and the woken waiters before the finally
Exit(q, value, ws, wk, out) ==
    /\ pc' = [pc EXCEPT ![q] = "done"]
    /\ outcome' = [outcome EXCEPT ![q] = out]
    /\ finished' = Append(finished, q)
    /\ semaphore' = Finally(value, ws, wk).value
    /\ woken' = Finally(value, ws, wk).woken
    /\ UNCHANGED attempts

\* head of `for _ in range(query_obj.max_retries)` (line 20): either the next
\* request is sent (the task suspends in session.get) or the loop is over and
\* the coroutine falls off its end, returning None.
Loop(q, value, ws, wk) ==
    IF MoreAttempts(attempts[q], queries[q].max_retries)
    THEN /\ pc' = [pc EXCEPT ![q] = "inflight"]
         /\ attempts' = [attempts EXCEPT ![q] = @ + 1]
         /\ semaphore' = value
         /\ woken' = wk
         /\ UNCHANGED <<outcome, finished>>
    ELSE Exit(q, value, ws, wk, AfterLoop)

\* lines 17-22, the first step of the task of q: with the semaphore not locked
\* it takes a permit, builds the query text and enters the loop; with the
\* semaphore locked it joins the waiters of acquire and suspends
Acquire(q) ==
    /\ pc[q] = "pending"
    /\ ~Started(q)
    /\ \A p \in Queries : p < q => Started(p)
    /\ IF Locked(semaphore, waiters)
       THEN /\ waiters' = Append(waiters, q)
            /\ UNCHANGED <<semaphore, woken, pc, attempts, outcome, finished>>
       ELSE /\ waiters' = waiters
            /\ IF BuildRaises(queries[q])
               THEN Exit(q, SemAcquire(semaphore), waiters, woken, Raised("ValueError"))
               ELSE Loop(q, SemAcquire(semaphore), waiters, woken)
    /\ UNCHANGED <<queries, max_concurrent, gated, runAll, results, execVars, pureVars>>

\* lines 17-22 for a task that waited: a release handed it the permit, so
\* acquire returns without touching the counter for it; the task leaves the
\* waiters, passes a permit that is still free on to the next waiter, builds
\* the query text and enters the loop
Admit(q) ==
    /\ q \in woken
    /\ LET ws == SelectSeq(waiters, LAMBDA w : w # q)
           wk == woken \ {q}
           sem == IF semaphore > 0
                  THEN WakeUpNext(semaphore, ws, wk)
                  ELSE [value |-> semaphore, woken |-> wk]
       IN  /\ waiters' = ws
           /\ IF BuildRaises(queries[q])
              THEN Exit(q, sem.value, ws, sem.woken, Raised("ValueError"))
              ELSE Loop(q, sem.value, ws, sem.woken)
    /\ UNCHANGED <<queries, max_concurrent, gated, runAll, results, execVars, pureVars>>

\* _run_query goes on after an answer: it returns, raises or starts the sleep
OnAnswer(q, resp) ==
    LET todo == AsyncOnResponse(resp) IN
    CASE todo = "return" -> Exit(q, semaphore, waiters, woken, ReturnedData(q))
      [] todo = "raise" -> Exit(q, semaphore, waiters, woken, Raised("Exception"))
      [] OTHER -> /\ pc' = [pc EXCEPT ![q] = "sleeping"]
                  /\ UNCHANGED <<semaphore, woken, attempts, outcome, finished>>

\* lines 22-23, 32-34: session.get is over. With status 200 the task suspends
\* again in `await resp.text()` (line 24) until the body has arrived; any
\* other status, a ClientError or another exception is acted on at once
Respond(q, resp) ==
    /\ pc[q] = "inflight"
    /\ AllStarted
    /\ IF resp.kind = "http" /\ resp.status = 200
       THEN /\ pc' = [pc EXCEPT ![q] = "reading"]
            /\ UNCHANGED <<semaphore, woken, attempts, outcome, finished>>
       ELSE OnAnswer(q, resp)
    /\ UNCHANGED <<queries, max_concurrent, waiters, gated, runAll, results, execVars, pureVars>>

\* lines 24-31: the body of a 200 answer has arrived (or reading it failed);
\* resp.json() of line 28 reads the stored body and does not suspend again
ReadBody(q, body) ==
    /\ pc[q] = "reading"
    /\ OnAnswer(q, [kind |-> "http", status |-> 200, body |-> body])
    /\ UNCHANGED <<queries, max_concurrent, waiters, gated, runAll, results, execVars, pureVars>>

\* asyncio.sleep(retry_delay) is over (lines 32, 34): back to the loop head
Wake(q) ==
    /\ pc[q] = "sleeping"
    /\ Loop(q, semaphore, waiters, woken)
    /\ UNCHANGED <<queries, max_concurrent, waiters, gated, runAll, results, execVars, pureVars>>

\* bug variant: results collected as the coroutines complete (as_completed)
Gathered_ByCompletion == [i \in 1..Len(finished) |-> outcome[finished[i]]]

\* asyncio.gather without return_exceptions (line 40): the list of the
\* coroutines' return values, by position in the argument list.
Gathered == [i \in Queries |-> outcome[i]]

\* every coroutine returned: run_all returns the gathered list
GatherReturn ==
    /\ runAll = "gathering"
    /\ \A q \in Queries : pc[q] = "done" /\ ~IsRaised(outcome[q])
    /\ runAll' = "returned"
    /\ results' = Gathered
    /\ UNCHANGED <<queries, max_concurrent, semaphore, waiters, woken, pc, attempts, outcome, finished, gated,
                   execVars, pureVars>>

\* a coroutine raised: gather propagates the first exception to run_all at
\* once; the other tasks are not cancelled and go on running.
GatherRaise ==
    /\ runAll = "gathering"
    /\ AllStarted
    /\ \E q \in Queries : IsRaised(outcome[q])
    /\ runAll' = "raised"
    /\ UNCHANGED <<queries, max_concurrent, semaphore, waiters, woken, pc, attempts, outcome, finished, gated,
                   results, execVars, pureVars>>

Next ==
    \/ \E q \in Queries : Acquire(q)
    \/ \E q \in Queries : Admit(q)
    \/ \E q \in Queries : pc[q] = "inflight" /\ \E resp \in Responses : Respond(q, resp)
    \/ \E q \in Queries : pc[q] = "reading" /\ \E body \in Bodies : ReadBody(q, body)
    \/ \E q \in Queries : Wake(q)
    \/ GatherReturn
    \/ GatherRaise

Spec == Init /\ [][Next]_vars

\* The event loop keeps running while a task is ready: a task that has not
\* run yet, a waiter that was handed a permit, an attempt in flight that is
\* answered, a body that arrives, a sleep that ends, gather when its coroutines have ended or one
\* has raised.
Fairness == WF_vars(Next)

SpecFair == Spec /\ Fairness

\* ------------------------------------------------------------ a single call
\* no batch is running (SpecExec)
BatchIdle ==
    /\ queries = <<>>
    /\ max_concurrent = MaxConcurrent
    /\ semaphore = MaxConcurrent
    /\ waiters = <<>>
    /\ woken = {}
    /\ pc = [q \in Queries |-> "idle"]
    /\ attempts = [q \in Queries |-> 0]
    /\ outcome = [q \in Queries |-> Running]
    /\ finished = <<>>
    /\ gated = {}
    /\ runAll = "idle"
    /\ results = <<>>

\* run() and _run_query are called on any query object; run() waits for a slot
\* with the default max_wait; _wait_for_slot is also called with any max_wait.
InitExec ==
    /\ BatchIdle
    /\ PureIdle
    /\ call \in {"run", "_run_query", "_wait_for_slot"}
    /\ self \in QueryObjects
    /\ call = "_wait_for_slot" =>
          self = [area_name |-> "Berlin", bbox |-> <<>>, max_retries |-> 0]
    /\ fmt \in Formats
    /\ call = "_wait_for_slot" => fmt = DefaultFormat
    /\ shape = NoShape
    /\ max_wait \in 0..MaxWaitBound \cup {DefaultMaxWait}
    /\ call = "run" => max_wait = DefaultMaxWait
    /\ call = "_run_query" => max_wait = 0
    /\ step = "called"
    /\ waited = 0
    /\ polls = 0
    /\ lastProbe = NoProbe
    /\ trace = <<>>
    /\ sleeps = 0
    /\ result = Running

\* the call ends
Return(out) ==
    /\ step' = "done"
    /\ result' = out

\* head of the retry loop of run (line 220) and _run_query (line 20)
RetryLoop ==
    IF MoreAttempts(Len(trace), self.max_retries)
    THEN step' = "request" /\ UNCHANGED result
    ELSE Return(AfterLoop)

\* query = self._build_query() (run line 218, _run_query line 19), then the loop
BuildAndLoop ==
    IF BuildRaises(self) THEN Return(Raised("ValueError")) ELSE RetryLoop

\* head of `while waited < max_wait` (lines 130-135) with `w` waited so far:
\* the next probe is sent, or TimeoutError is raised
SlotLoop(w) ==
    IF SlotLoopGoesOn(w, max_wait)
    THEN /\ step' = "probe"
         /\ polls' = polls + 1
         /\ UNCHANGED result
    ELSE /\ Return(Raised("TimeoutError"))
         /\ UNCHANGED polls

\* bug variant: run goes to its retry loop without consulting the slot gate
Start_NoGate ==
    /\ step = "called"
    /\ IF call \in {"_run_query", "run"}
       THEN BuildAndLoop /\ UNCHANGED polls
       ELSE SlotLoop(waited)
    /\ UNCHANGED <<call, self, fmt, shape, max_wait, waited, lastProbe, trace, sleeps, batchVars, pureVars>>

\* the call starts: run and _wait_for_slot enter the slot gate (lines 217, 129),
\* _run_query builds the query and enters its loop
Start ==
    /\ step = "called"
    /\ IF call = "_run_query"
       THEN BuildAndLoop /\ UNCHANGED polls
       ELSE SlotLoop(waited)
    /\ UNCHANGED <<call, self, fmt, shape, max_wait, waited, lastProbe, trace, sleeps, batchVars, pureVars>>

\* bug variant: the gate sleeps after every probe and looks at the answer later
Probe_SleepAnyway(probe) ==
    /\ step = "probe"
    /\ lastProbe' = probe
    /\ step' = "slot_sleep"
    /\ UNCHANGED <<call, self, fmt, shape, max_wait, waited, polls, trace, sleeps, result, batchVars, pureVars>>

\* the status endpoint answers a probe (line 131): the gate returns when the
\* answer is truthy, otherwise time.sleep(5) starts
Probe(probe) ==
    /\ step = "probe"
    /\ lastProbe' = probe
    /\ IF Truthy(CheckAvailability(probe))
       THEN IF call = "run" THEN BuildAndLoop ELSE Return(ReturnedNone)
       ELSE step' = "slot_sleep" /\ UNCHANGED result
    /\ UNCHANGED <<call, self, fmt, shape, max_wait, waited, polls, trace, sleeps, batchVars, pureVars>>

\* time.sleep(5) is over (lines 133-134): waited += 5 and the loop test
SlotWake ==
    /\ step = "slot_sleep"
    /\ waited' = waited + PollInterval
    /\ SlotLoop(waited + PollInterval)
    /\ UNCHANGED <<call, self, fmt, shape, max_wait, lastProbe, trace, sleeps, batchVars, pureVars>>

\* _run_query lines 22-24: session.get is over with status 200 and the task
\* suspends again in `await resp.text()` until the body has arrived; requests
\* is synchronous, so run has no such suspension
StatusLine ==
    /\ call = "_run_query"
    /\ step = "request"
    /\ step' = "reading"
    /\ UNCHANGED <<call, self, fmt, shape, max_wait, waited, polls, lastProbe, trace, sleeps,
                   result, batchVars, pureVars>>

\* where the call is when the answer `resp` is acted on: in _run_query a 200
\* answer is acted on once its body has been read
AnsweredAt(resp) ==
    IF call = "_run_query" /\ resp.kind = "http" /\ resp.status = 200
    THEN "reading"
    ELSE "request"

\* the transport answers the HTTP attempt (run lines 222-239, _run_query 22-34)
Answer(resp, content) ==
    /\ step = AnsweredAt(resp)
    /\ trace' = Append(trace, resp)
    /\ LET todo == IF call = "run" THEN RunOnResponse(resp)
                   ELSE AsyncOnResponse(resp) IN
         CASE todo = "return" ->
                /\ Return(ReturnedData(0))
                /\ shape' = ResultShape(fmt.output, fmt.parse_geometry, content)
                /\ UNCHANGED sleeps
           [] todo = "return_None" -> Return(ReturnedNone) /\ UNCHANGED <<sleeps, shape>>
           [] todo = "raise" -> Return(Raised("Exception")) /\ UNCHANGED <<sleeps, shape>>
           [] OTHER -> /\ step' = "retry_sleep"
                       /\ sleeps' = sleeps + 1
                       /\ UNCHANGED <<result, shape>>
    /\ UNCHANGED <<call, self, fmt, max_wait, waited, polls, lastProbe, batchVars, pureVars>>

\* the retry_delay sleep is over: next loop iteration
RetryWake ==
    /\ step = "retry_sleep"
    /\ RetryLoop
    /\ UNCHANGED <<call, self, fmt, shape, max_wait, waited, polls, lastProbe, trace, sleeps, batchVars, pureVars>>

NextExec ==
    \/ Start
    \/ step = "probe" /\ \E probe \in ProbeResponses : Probe(probe)
    \/ SlotWake
    \/ StatusLine
    \/ step \in {"request", "reading"} /\
          \E resp \in Responses, content \in Contents : Answer(resp, content)
    \/ RetryWake

SpecExec == InitExec /\ [][NextExec]_vars

\* ------------------------------------------------------- the query builder
InitBuild ==
    /\ BatchIdle
    /\ ExecIdle
    /\ DecodeIdle
    /\ RestIdle
    /\ builder \in BuildObjects
    /\ tag_filter = Unset
    /\ query = Unset
    /\ built = "no"

\* self._format_tags() is called
CallFormatTags ==
    /\ tag_filter = Unset
    /\ tag_filter' = FormatTags(builder.tags)
    /\ UNCHANGED <<builder, query, built, batchVars, execVars, decodeVars, restVars>>

\* self._build_query() is called: it returns the text, or _build_main_query
\* raises ValueError
CallBuildQuery ==
    /\ built = "no"
    /\ IF BuildRaises(builder)
       THEN built' = "ValueError" /\ UNCHANGED query
       ELSE built' = "text" /\ query' = BuildQuery(builder)
    /\ UNCHANGED <<builder, tag_filter, batchVars, execVars, decodeVars, restVars>>

NextBuild == CallFormatTags \/ CallBuildQuery

SpecBuild == InitBuild /\ [][NextBuild]_vars

\* ------------------------------------------------------------- the decoder
InitDecode ==
    /\ BatchIdle
    /\ ExecIdle
    /\ BuildIdle
    /\ RestIdle
    /\ osm_json \in OsmJsons
    /\ elements = <<>>
    /\ didx = 0
    /\ records = <<>>
    /\ dstep = "called"
    /\ derror = "none"
    /\ frame = NoFrame

\* bug variant: no early return, the loop and line 214 run on the empty list
CallDecode_NoEarlyReturn ==
    /\ dstep = "called"
    /\ elements' = osm_json.elements
    /\ dstep' = "loop"
    /\ didx' = 1
    /\ UNCHANGED <<osm_json, records, derror, frame, batchVars, execVars, buildVars, restVars>>

\* lines 170-175: elements = osm_json.get("elements", []); an empty element
\* list returns the empty frame at once
CallDecode ==
    /\ dstep = "called"
    /\ elements' = osm_json.elements
    /\ IF osm_json.elements = <<>>
       THEN dstep' = "returned" /\ frame' = EmptyFrame /\ UNCHANGED didx
       ELSE dstep' = "loop" /\ didx' = 1 /\ UNCHANGED frame
    /\ UNCHANGED <<osm_json, records, derror, batchVars, execVars, buildVars, restVars>>

\* lines 177-212: one iteration of `for el in elements`
DecodeStep ==
    /\ dstep = "loop"
    /\ didx <= Len(elements)
    /\ LET d == DecodeElement(elements[didx]) IN
         CASE d.kind = "record" ->
                /\ records' = Append(records, MakeRecord(elements[didx], d.geom, didx))
                /\ didx' = didx + 1
                /\ UNCHANGED <<dstep, derror>>
           [] d.kind = "skip" ->
                /\ didx' = didx + 1
                /\ UNCHANGED <<records, dstep, derror>>
           [] OTHER ->
                /\ dstep' = "raised"
                /\ derror' = "AttributeError"
                /\ UNCHANGED <<records, didx>>
    /\ UNCHANGED <<osm_json, elements, frame, batchVars, execVars, buildVars, restVars>>

\* line 214: the frame is built from the records
ReturnFrame ==
    /\ dstep = "loop"
    /\ didx > Len(elements)
    /\ records # <<>>
    /\ dstep' = "returned"
    /\ frame' = Frame(ColumnsOf(elements, records), records)
    /\ UNCHANGED <<osm_json, elements, didx, records, derror, batchVars, execVars, buildVars, restVars>>

\* line 214 with no record left: GeoDataFrame([], geometry="geometry") has no
\* column of that name, and geopandas raises ValueError
FrameRaises ==
    /\ dstep = "loop"
    /\ didx > Len(elements)
    /\ records = <<>>
    /\ dstep' = "raised"
    /\ derror' = "ValueError"
    /\ UNCHANGED <<osm_json, elements, didx, records, frame, batchVars, execVars, buildVars, restVars>>

NextDecode == CallDecode \/ DecodeStep \/ ReturnFrame \/ FrameRaises

SpecDecode == InitDecode /\ [][NextDecode]_vars

\* ---------------------------------------------------------- query_region
InitTool ==
    /\ BatchIdle
    /\ ExecIdle
    /\ BuildIdle
    /\ DecodeIdle
    /\ GoogleIdle
    /\ NewsIdle
    /\ params \in Formats
    /\ tstep = "called"
    /\ underlying = "pending"
    /\ tresult = NoToolResult

\* lines 55-56: run_all([query]) runs _run_query, which ends; on a 200 answer
\* the result is assembled (osm_client.py lines 24-31), by json_to_geodataframe
\* when output is json and parse_geometry is set
ToolRunAll(ends, payload) ==
    /\ tstep = "called"
    /\ CASE ends = "exhausted" ->
              /\ underlying' = "None"
              /\ tstep' = "classify"
              /\ UNCHANGED <<osm_json, dstep>>
         [] ends = "exception" ->
              /\ underlying' = "raised"
              /\ tstep' = "raised"
              /\ UNCHANGED <<osm_json, dstep>>
         [] OTHER ->
              LET kind == ResultShape(params.output, params.parse_geometry, "elements").kind IN
              IF kind = "GeoDataFrame"
              THEN /\ osm_json' = payload
                   /\ dstep' = "called"
                   /\ tstep' = "decoding"
                   /\ UNCHANGED underlying
              ELSE /\ underlying' = kind
                   /\ tstep' = "classify"
                   /\ UNCHANGED <<osm_json, dstep>>
    /\ UNCHANGED <<params, tresult, elements, didx, records, derror, frame,
                   batchVars, execVars, buildVars, googleVars, newsVars>>

\* json_to_geodataframe has ended: its frame is the result of the query, its
\* exception leaves _run_query, gather, run_all and query_region
ToolDecoded ==
    /\ tstep = "decoding"
    /\ dstep \in {"returned", "raised"}
    /\ IF dstep = "returned"
       THEN underlying' = "GeoDataFrame" /\ tstep' = "classify"
       ELSE underlying' = "raised" /\ tstep' = "raised"
    /\ UNCHANGED <<params, tresult, decodeVars, batchVars, execVars, buildVars, googleVars, newsVars>>

\* bug variant: the result is taken for a frame without looking
ToolClassify_NoTypeTest ==
    /\ tstep = "classify"
    /\ IF underlying # "GeoDataFrame" \/ \E i \in DOMAIN frame.rows : FeatureRaises(frame.columns, frame.rows[i])
       THEN tstep' = "raised" /\ UNCHANGED tresult
       ELSE /\ tstep' = "returned"
            /\ tresult' = ToolResult([i \in DOMAIN frame.rows |-> Feature(frame.columns, frame.rows[i])])
    /\ UNCHANGED <<params, underlying, decodeVars, batchVars, execVars, buildVars, googleVars, newsVars>>

\* lines 58-81: a GeoDataFrame gives one feature per row, anything else
\* (None, a dict, a DataFrame, a text) gives count 0 and no features
ToolClassify ==
    /\ tstep = "classify"
    /\ IF underlying = "GeoDataFrame"
       THEN IF \E i \in DOMAIN frame.rows : FeatureRaises(frame.columns, frame.rows[i])
            THEN tstep' = "raised" /\ UNCHANGED tresult
            ELSE /\ tstep' = "returned"
                 /\ tresult' = ToolResult([i \in DOMAIN frame.rows |-> Feature(frame.columns, frame.rows[i])])
       ELSE /\ tstep' = "returned"
            /\ tresult' = ToolResult(<<>>)
    /\ UNCHANGED <<params, underlying, decodeVars, batchVars, execVars, buildVars, googleVars, newsVars>>

NextTool ==
    \/ tstep = "called" /\ \E ends \in QueryEnds, payload \in OsmJsons : ToolRunAll(ends, payload)
    \/ CallDecode
    \/ DecodeStep
    \/ ReturnFrame
    \/ FrameRaises
    \/ ToolDecoded
    \/ ToolClassify

SpecTool == InitTool /\ [][NextTool]_vars

\* -------------------------------------------------------------------- main
InitNews ==
    /\ BatchIdle
    /\ ExecIdle
    /\ BuildIdle
    /\ DecodeIdle
    /\ GoogleIdle
    /\ ToolIdle
    /\ results_ = <<>>
    /\ nstep = "called"
    /\ idx = 0
    /\ batch_values = <<>>
    /\ table = <<>>

\* lines 243-247: the search raises and main returns
SearchFails ==
    /\ nstep = "called"
    /\ nstep' = "search_failed"
    /\ UNCHANGED <<results_, idx, batch_values, table, batchVars, execVars, buildVars, decodeVars, googleVars, toolVars>>

\* lines 244, 250-264: the search returns its items, the table exists
SearchReturns(items) ==
    /\ nstep = "called"
    /\ results_' = items
    /\ nstep' = "loop"
    /\ idx' = 1
    /\ UNCHANGED <<batch_values, table, batchVars, execVars, buildVars, decodeVars, googleVars, toolVars>>

\* lines 266-296: one iteration of the loop: the item's tuple is appended to
\* batch_values and batch_values is inserted
Iterate ==
    /\ nstep = "loop"
    /\ idx <= Len(results_)
    /\ IF ItemRaises(results_[idx])
       THEN /\ nstep' = "raised"
            /\ UNCHANGED <<idx, batch_values, table>>
       ELSE /\ batch_values' = Append(batch_values, RowOf(idx, results_[idx]))
            /\ table' = BatchInsert(table, Append(batch_values, RowOf(idx, results_[idx])))
            /\ idx' = idx + 1
            /\ UNCHANGED nstep
    /\ UNCHANGED <<results_, batchVars, execVars, buildVars, decodeVars, googleVars, toolVars>>

\* line 298: the loop is over
ClosePool ==
    /\ nstep = "loop"
    /\ idx > Len(results_)
    /\ nstep' = "done"
    /\ UNCHANGED <<results_, idx, batch_values, table, batchVars, execVars, buildVars, decodeVars, googleVars, toolVars>>

NextNews ==
    \/ SearchFails
    \/ \E items \in SearchResults : SearchReturns(items)
    \/ Iterate
    \/ ClosePool

SpecNews == InitNews /\ [][NextNews]_vars

\* ------------------------------------------------- _execute_with_retries
InitGoogle ==
    /\ BatchIdle
    /\ ExecIdle
    /\ BuildIdle
    /\ DecodeIdle
    /\ ToolIdle
    /\ NewsIdle
    /\ gstep = "call"
    /\ attempt = 0
    /\ gcalls = <<>>
    /\ gsleeps = <<>>
    /\ jitter = 0
    /\ gresult = "none"

\* lines 89-102: func() is called and returns or raises
CallFunc(out, pct) ==
    /\ gstep = "call"
    /\ gcalls' = Append(gcalls, out)
    /\ CASE out.kind = "ok" ->
              /\ gstep' = "returned"
              /\ gresult' = "value"
              /\ UNCHANGED <<gsleeps, jitter>>
         [] out.kind = "HttpError" /\ ShouldRetry(out) /\ MayBackOff(attempt) ->
              /\ gstep' = "sleep"
              /\ gsleeps' = Append(gsleeps, BaseDelay(attempt))
              /\ jitter' = pct
              /\ UNCHANGED gresult
         [] OTHER ->
              /\ gstep' = "raised"
              /\ gresult' = out.kind
              /\ UNCHANGED <<gsleeps, jitter>>
    /\ UNCHANGED <<attempt, batchVars, execVars, buildVars, decodeVars, toolVars, newsVars>>

\* the sleep is over (line 98): next iteration of the loop of line 88, or
\* line 104 when the range is used up
BackoffOver ==
    /\ gstep = "sleep"
    /\ attempt' = attempt + 1
    /\ IF attempt + 1 < MAX_RETRIES
       THEN gstep' = "call" /\ UNCHANGED gresult
       ELSE gstep' = "returned" /\ gresult' = "None"
    /\ UNCHANGED <<gcalls, gsleeps, jitter, batchVars, execVars, buildVars, decodeVars, toolVars, newsVars>>

NextGoogle ==
    \/ \E out \in FuncOutcomes, pct \in JitterPercents : CallFunc(out, pct)
    \/ BackoffOver

SpecGoogle == InitGoogle /\ [][NextGoogle]_vars

\* --------------------------------------------------------- claims: the batch
\* queries that hold a permit: between acquire (line 17) and the finally (line 36)
Holders == {q \in Queries : pc[q] \in {"inflight", "reading", "sleeping"}}
\* queries a release has handed a permit to, still suspended in acquire
Handed == woken
InFlight == {q \in Queries : pc[q] \in {"inflight", "reading"}}
AllDone == \A q \in Queries : pc[q] = "done"

\* C1: in every reachable state of a batch run with max_concurrent = N, at most
\* N queries hold a permit, hence at most N HTTP attempts are in flight.
C1_AtMostNHoldPermit ==
    /\ Cardinality(Holders) + Cardinality(Handed) <= max_concurrent
    /\ Cardinality(InFlight) <= max_concurrent

\* the ceiling is reached while another query of the batch waits in acquire
C1_Witness ==
    /\ max_concurrent = MaxConcurrent
    /\ Cardinality(InFlight) = max_concurrent
    /\ \E q \in Queries : pc[q] = "pending" /\ Started(q) /\ q \notin woken

\* C2: when run_all returns, it returns one result per input spec and the
\* i-th result is the outcome of the i-th query (data of query i, or None),
\* whatever order the queries completed in.
C2_ResultsInInputOrder ==
    runAll = "returned" =>
        /\ Len(results) = NumQueries
        /\ \A i \in Queries :
              /\ results[i] = outcome[i]
              /\ results[i] \in {ReturnedNone, ReturnedData(i)}

\* run_all returned although the first query of the batch completed last,
\* after the query that had to wait for a permit, and both returned data
C2_Witness ==
    /\ runAll = "returned"
    /\ finished[1] # 1
    /\ finished[NumQueries - 1] = NumQueries
    /\ finished[NumQueries] = 1
    /\ results[1] = ReturnedData(1)
    /\ results[NumQueries] = ReturnedData(NumQueries)

\* C3: every permit acquired is released exactly once on every exit path:
\* permits held (by a running query, or handed to a waiter by a release) plus
\* permits free is max_concurrent in every state, and once every query of the
\* batch has finished all permits are free again.
C3_PermitsConserved ==
    /\ Cardinality(Holders) + Cardinality(Handed) + semaphore = max_concurrent
    /\ AllDone => (semaphore = max_concurrent /\ Handed = {} /\ waiters = <<>>)

\* a finished batch in which one query raised while its query text was built,
\* one raised in the loop or returned None, and one returned data
C3_Witness ==
    /\ AllDone
    /\ max_concurrent = MaxConcurrent
    /\ semaphore = max_concurrent
    /\ \E q \in Queries : outcome[q] = Raised("ValueError")
    /\ \E q \in Queries : outcome[q] \in {Raised("Exception"), ReturnedNone}
    /\ \E q \in Queries : outcome[q] = ReturnedData(q)

\* C4 (as claimed): the failure of one spec never aborts its siblings: run_all
\* is over only when every spec of the batch has reached its own terminal
\* outcome, and it then yields one outcome per input spec.
C4_FailureNeverAbortsSiblings ==
    runAll # "gathering" =>
        /\ AllDone
        /\ runAll = "returned"
        /\ Len(results) = NumQueries

\* C5 (as claimed): a query issues an HTTP attempt only while it holds a permit
\* and after it has passed the slot gate.
C5_AttemptOnlyAfterPermitAndGate ==
    \A q \in Queries :
        pc[q] = "inflight" => (q \in Holders /\ q \in gated)

\* ---------------------------------------------------- claims: a single call
\* a transient failure in the spec's sense: a retryable status or a
\* connection-level failure
Transient(resp) ==
    \/ resp.kind = "connection_error"
    \/ resp.kind = "http" /\ resp.status \in {429, 500, 503}

\* a 200 response whose body is assembled into a result
Success(resp) == resp.kind = "http" /\ resp.status = 200 /\ resp.body = "ok"

\* a status that is neither 200 nor retryable
TerminalStatus(resp) ==
    resp.kind = "http" /\ resp.status \notin {200, 429, 500, 503}

\* after answer k with a terminal status the call is over: it returned None,
\* answer k is the last one, and only the k-1 earlier answers were slept on
EndsAtTerminalStatus(k) ==
    /\ k = Len(trace)
    /\ step = "done"
    /\ result = ReturnedNone
    /\ sleeps = k - 1

\* C6: in OverpassQuery.run a response whose status is neither 200 nor in
\* {429, 500, 503} ends the execution at once with the no-result outcome: no
\* sleep and no further attempt follow it, whatever retry budget remains.
C6_RunTerminalStatusEndsAtOnce ==
    call = "run" =>
        \A k \in 1..Len(trace) : TerminalStatus(trace[k]) => EndsAtTerminalStatus(k)

\* run() got a 404 after a retried 503 and stopped with retry budget left
C6_Witness ==
    /\ call = "run"
    /\ Len(trace) = 2
    /\ trace[1].status = 503
    /\ trace[2].status = 404
    /\ Len(trace) < self.max_retries
    /\ step = "done"
    /\ result = ReturnedNone

\* C7 (as claimed): in _run_query a status that is neither 200 nor in
\* {429, 500, 503} is terminal: the query fails after that single attempt,
\* without sleeping retry_delay and without a further attempt.
C7_AsyncTerminalStatusEndsAtOnce ==
    call = "_run_query" =>
        \A k \in 1..Len(trace) : TerminalStatus(trace[k]) => EndsAtTerminalStatus(k)

\* C8: one execution of run or _run_query issues at most max_retries HTTP
\* attempts (none when max_retries = 0); when the first k-1 answers are
\* transient failures and the k-th is a 200 with a well-formed body, it returns
\* the result after exactly k attempts.
C8_AtMostMaxRetriesAttempts ==
    call \in {"run", "_run_query"} =>
        /\ Len(trace) <= self.max_retries
        /\ step \in {"request", "reading"} => Len(trace) < self.max_retries
        /\ \A k \in 1..Len(trace) :
              ((\A j \in 1..(k - 1) : Transient(trace[j])) /\ Success(trace[k])) =>
                  /\ step = "done"
                  /\ result = ReturnedData(0)
                  /\ Len(trace) = k

\* the last allowed attempt succeeded after transient failures on all earlier ones
C8_Witness ==
    /\ call \in {"run", "_run_query"}
    /\ self.max_retries = MaxRetriesBound
    /\ Len(trace) = self.max_retries
    /\ \A j \in 1..(Len(trace) - 1) : Transient(trace[j])
    /\ Success(trace[Len(trace)])
    /\ result = ReturnedData(0)

\* C9: when each of the max_retries (>= 1) attempts fails transiently, run and
\* _run_query return the no-result sentinel None and do not raise.
C9_ExhaustedRetriesReturnNone ==
    ( /\ call \in {"run", "_run_query"}
      /\ step = "done"
      /\ self.max_retries >= 1
      /\ Len(trace) = self.max_retries
      /\ \A k \in 1..Len(trace) : Transient(trace[k]) ) => result = ReturnedNone

\* all attempts were used up, on a retryable status and on a connection failure
C9_Witness ==
    /\ call \in {"run", "_run_query"}
    /\ step = "done"
    /\ self.max_retries = MaxRetriesBound
    /\ Len(trace) = self.max_retries
    /\ trace[1].kind = "connection_error"
    /\ \A k \in 2..Len(trace) : trace[k].kind = "http" /\ trace[k].status = 503
    /\ result = ReturnedNone

TimedOut == result = Raised("TimeoutError")

\* C10 (as claimed): with a status endpoint that never reports availability,
\* _wait_for_slot(max_wait) raises the timeout exactly at the max-wait
\* boundary, for every max_wait: the accumulated wait is then max_wait.
C10_TimeoutExactlyAtMaxWait ==
    TimedOut => waited = max_wait

\* C10 (amended): _wait_for_slot never raises the timeout while the
\* accumulated wait is below max_wait (>= 0), and raises it at the first
\* multiple of the 5 s poll interval that is not below max_wait: less than one
\* interval past max_wait, after one probe per interval; no probe and no sleep
\* starts once the accumulated wait has reached max_wait.
C10_TimeoutAtFirstPollBoundary ==
    /\ TimedOut =>
          /\ waited >= max_wait
          /\ waited < max_wait + PollInterval
          /\ waited % PollInterval = 0
          /\ polls * PollInterval = waited
    /\ step \in {"probe", "slot_sleep"} => waited < max_wait

\* the timeout was raised past a max_wait that is no multiple of the interval
C10_Witness ==
    /\ call = "_wait_for_slot"
    /\ TimedOut
    /\ max_wait = PollInterval + 1
    /\ waited = 2 * PollInterval
    /\ polls = 2

\* the marker substrings of the status text that mean a slot is free
Markers == {<<"Slot", "available">>, <<"available", "now">>, <<"slots", "available">>}

\* a 200 status response whose body contains a marker
ReportsAvailable(probe) ==
    /\ probe.kind = "http"
    /\ probe.status = 200
    /\ \E m \in Markers : Contains(probe.body, m)

\* _wait_for_slot has returned normally
GatePassed ==
    \/ call = "_wait_for_slot" /\ result = ReturnedNone
    \/ call = "run" /\ step \in {"request", "retry_sleep"}
    \/ call = "run" /\ step = "done" /\ ~TimedOut

\* C11: the slot gate passes only on a 200 status response whose body contains
\* a recognized marker; after any other body, any non-200 status and any network
\* failure the gate goes on polling (it sleeps and probes again), and
\* _wait_for_slot fails only by the timeout.
C11_GateFailSafe ==
    /\ GatePassed => ReportsAvailable(lastProbe)
    /\ (lastProbe # NoProbe /\ ~ReportsAvailable(lastProbe)) =>
          \/ step \in {"slot_sleep", "probe"}
          \/ TimedOut /\ waited >= max_wait
    /\ (call = "_wait_for_slot" /\ IsRaised(result)) => TimedOut

\* the gate has gone on polling twice and is sleeping for the third time, on a
\* non-200 answer although its body carries a marker
C11_Witness ==
    /\ call = "_wait_for_slot"
    /\ polls = 3
    /\ step = "slot_sleep"
    /\ lastProbe.kind = "http"
    /\ lastProbe.status = 503
    /\ Contains(lastProbe.body, <<"slots", "available">>)

\* C12 (as claimed): executing a spec that has neither a bounding box nor an
\* area name fails with the configuration error before any network call: no
\* status probe and no query request is issued, in run and in _run_query.
C12_ConfigErrorBeforeAnyNetworkCall ==
    (call \in {"run", "_run_query"} /\ BuildRaises(self)) =>
        /\ polls = 0
        /\ Len(trace) = 0
        /\ step = "done" => result = Raised("ValueError")

\* ------------------------------------------------ claims: the query builder
StartsWith(text, prefix) ==
    Len(text) >= Len(prefix) /\ SubSeq(text, 1, Len(prefix)) = prefix
EndsWith(text, suffix) ==
    /\ Len(text) >= Len(suffix)
    /\ SubSeq(text, Len(text) - Len(suffix) + 1, Len(text)) = suffix

\* the filter the spec gives for one entry whose value is a bool or a str
Rendered(k, v) ==
    CASE v = VBool(TRUE) -> <<"[", k, "]">>
      [] v = VBool(FALSE) -> <<"[", "!", k, "]">>
      [] v.t = "str" /\ StartsWithTilde(v.s) ->
            <<"[", k, "~", "\"">> \o SubSeq(v.s, 2, Len(v.s)) \o <<"\"", "]">>
      [] v.t = "str" /\ ~StartsWithTilde(v.s) /\ HasBar(v.s) ->
            <<"[", k, "~", "\"", "^">> \o v.s \o <<"$", "\"", "]">>
      [] OTHER -> <<"[", k, "=", "\"">> \o v.s \o <<"\"", "]">>

OnlyBoolOrStr(tags) == \A i \in DOMAIN tags : tags[i][2].t \in {"bool", "str"}

\* C13: _format_tags renders each entry by its value (True [k], False [!k],
\* "~p" [k~"p"] unanchored also when p contains '|', a string with '|'
\* [k~"^v$"], any other string [k="v"]) and concatenates the entries in the
\* mapping's order with no separator.
C13_TagRendering ==
    (tag_filter # Unset /\ OnlyBoolOrStr(builder.tags)) =>
        tag_filter =
            Join(<<>>, [i \in DOMAIN builder.tags |->
                          Rendered(builder.tags[i][1], builder.tags[i][2])])

\* a '~' pattern containing '|' followed by a False entry has been rendered
C13_Witness ==
    /\ builder.tags = <<<<"shop", VStr(<<"~", "a", "|", "b">>)>>,
                        <<"amenity", VBool(FALSE)>>>>
    /\ tag_filter = <<"[", "shop", "~", "\"", "a", "|", "b", "\"", "]",
                      "[", "!", "amenity", "]">>

\* the text (s,w,n,e) of the object's bounding box
BBoxClause(o) ==
    <<"(", ToString(o.bbox[1]), ",", ToString(o.bbox[2]), ",",
      ToString(o.bbox[3]), ",", ToString(o.bbox[4]), ")">>
HasAreaClause == Contains(query, <<"(area)">>)
HasAreaStatement == Contains(query, <<"area", "[name=\"", builder.area_name, "\"]">>)
AreaOnly == builder.area_name # "" /\ builder.bbox = <<>>

\* C14 (as claimed): with a bounding box every element-kind statement of the
\* built text carries the literal clause (s,w,n,e); the clause (area) and the
\* preceding statement selecting the named area are produced exactly when
\* there is an area name and no bounding box.
C14_LocationClause ==
    built = "text" =>
        /\ builder.bbox # <<>> =>
              \A i \in DOMAIN builder.element_types :
                  Contains(query, <<builder.element_types[i]>>
                                      \o FormatTags(builder.tags)
                                      \o BBoxClause(builder) \o <<";">>)
        /\ HasAreaClause <=> (AreaOnly /\ builder.element_types # <<>>)
        /\ HasAreaStatement <=> AreaOnly

CsvCase == builder.output = "csv" /\ builder.csv_fields # <<>>
GeomCase == ~CsvCase /\ builder.output = "json" /\ builder.parse_geometry
Endings == {OutCenter, OutGeom, OutRecursive}

\* C15: for every spec it builds, _build_query picks exactly one of three
\* templates: csv with a non-empty field list gives the csv header and
\* 'out center'; otherwise json with parse_geometry gives 'out geom'; every
\* other combination gives the recursive dump 'out body; >; out skel qt'.
C15_ThreeTemplates ==
    built = "text" =>
        /\ Cardinality({e \in Endings : EndsWith(query, e)}) = 1
        /\ CsvCase =>
              /\ StartsWith(query, <<"[out:", "csv", "(">>
                                       \o Join(<<",">>, Each(builder.csv_fields))
                                       \o <<")", "]", "[timeout:">>)
              /\ EndsWith(query, OutCenter)
        /\ GeomCase =>
              /\ StartsWith(query, <<"[out:", "json", "]", "[timeout:">>)
              /\ EndsWith(query, OutGeom)
        /\ (~CsvCase /\ ~GeomCase) =>
              /\ StartsWith(query, <<"[out:", builder.output, "]", "[timeout:">>)
              /\ EndsWith(query, OutRecursive)

\* a json query without parse_geometry and a csv query without a field list
\* both got the recursive dump
C15_Witness ==
    /\ built = "text"
    /\ EndsWith(query, OutRecursive)
    /\ \/ builder.output = "json" /\ ~builder.parse_geometry
       \/ builder.output = "csv" /\ builder.csv_fields = <<>>
    /\ builder.bbox # <<>>

\* the bracket filters of a rendered chain
FilterCount(text) == Cardinality({i \in DOMAIN text : text[i] = "["})

\* C28: the chain _format_tags renders has one bracket filter per entry of the
\* tags mapping, whatever the type of the entry's value.
C28_OneFilterPerTag ==
    tag_filter # Unset => FilterCount(tag_filter) = Len(builder.tags)

\* ------------------------------------------------------- claims: the decoder
RecordsFrom(i) == {k \in DOMAIN records : records[k].from = i}
AllFinite(geom) ==
    \A k \in DOMAIN geom.coords : geom.coords[k][1][1] = "num" /\ geom.coords[k][2][1] = "num"
NonFiniteNode(el) ==
    el.shape = "dict" /\ el.type = "node" /\ {el.lat[1], el.lon[1]} \cap {"nan", "inf"} # {}

\* C16: every record of the output has a geometry whose coordinate components
\* are all finite, and a node with a NaN or infinite latitude or longitude
\* yields no record.
C16_OnlyFiniteCoordinates ==
    /\ \A k \in DOMAIN records : AllFinite(records[k].geometry)
    /\ \A i \in DOMAIN elements : NonFiniteNode(elements[i]) => RecordsFrom(i) = {}

\* a payload with a node at NaN latitude and a way that loses non-finite
\* points was decoded and returned the records of the finite geometry only
C16_Witness ==
    /\ dstep = "returned"
    /\ \E i \in DOMAIN elements : NonFiniteNode(elements[i])
    /\ \E i \in DOMAIN elements :
          /\ elements[i].type = "way"
          /\ Len(FilterCoords(elements[i].geometry)) \in 1..(Len(elements[i].geometry) - 1)
          /\ RecordsFrom(i) # {}

WayWithReadablePoints(el) ==
    /\ el.shape = "dict"
    /\ el.type = "way"
    /\ el.id # Missing
    /\ \A k \in DOMAIN el.geometry : ~PointRaises(el.geometry[k])
ClosedRing(coords) == coords[1] = coords[Len(coords)] /\ Len(coords) >= 3

\* C17: a way whose points are filtered to nothing is dropped; otherwise it is
\* in the output, as a Polygon exactly when the filtered list has its first
\* point equal to its last and at least 3 points, and as a LineString in every
\* other case.
C17_WayClassification ==
    dstep = "returned" =>
        \A i \in DOMAIN elements :
            WayWithReadablePoints(elements[i]) =>
                LET coords == FilterCoords(elements[i].geometry) IN
                IF coords = <<>> THEN RecordsFrom(i) = {}
                ELSE /\ RecordsFrom(i) # {}
                     /\ \A k \in RecordsFrom(i) :
                           /\ records[k].geometry.coords = coords
                           /\ records[k].geometry.gtype =
                                 IF ClosedRing(coords) THEN "Polygon" ELSE "LineString"

\* C18: no record of the output comes from an element of kind relation.
C18_NoRelationInOutput ==
    \A k \in DOMAIN records :
        ~(elements[records[k].from].shape = "dict" /\ elements[records[k].from].type = "relation")

\* a payload holding a relation with coordinates, points and tags next to a
\* decodable element was decoded: the relation was passed over, the other kept
C18_Witness ==
    /\ dstep = "returned"
    /\ records # <<>>
    /\ \E i \in DOMAIN elements :
          /\ elements[i].type = "relation"
          /\ elements[i].lat = Num(0)
          /\ elements[i].geometry # <<>>
          /\ RecordsFrom(i) = {}

\* C19: the id of a record is the id of its element and its geometry is the
\* decoded geometry, also when the element's tags have a key id or geometry.
C19_ReservedKeysWin ==
    \A k \in DOMAIN records :
        LET el == elements[records[k].from] IN
        /\ records[k].id = el.id
        /\ records[k].geometry = DecodeElement(el).geom

WellFormed(el) ==
    /\ el.shape = "dict"
    /\ el.id # Missing
    /\ \/ el.type = "node" /\ IsFinite(el.lat) /\ IsFinite(el.lon)
       \/ /\ el.type = "way"
          /\ Len(el.geometry) >= 2
          /\ \A k \in DOMAIN el.geometry : PointKept(el.geometry[k])
          /\ el.geometry[1] = el.geometry[Len(el.geometry)] => Len(el.geometry) >= 4

\* C20: no error of one element reaches the caller, and once the loop is over
\* every well-formed element of the payload has its record.
C20_MalformedElementNeverAborts ==
    /\ derror # "AttributeError"
    /\ dstep \in {"returned", "raised"} =>
          \A i \in DOMAIN elements : WellFormed(elements[i]) => RecordsFrom(i) # {}

EmptyOrAbsent == osm_json.elements = <<>>

\* C21: on a payload whose element list is empty or absent the call returns,
\* without running the loop and without an error, the empty frame with the
\* columns id, tags and geometry.
C21_EmptyPayloadGivesEmptyFrame ==
    (EmptyOrAbsent /\ dstep \notin {"idle", "called"}) =>
        /\ dstep = "returned"
        /\ derror = "none"
        /\ frame = Frame(<<"id", "tags", "geometry">>, <<>>)

\* a payload without the key "elements" was decoded
C21_Witness ==
    /\ ~osm_json.has_elements
    /\ dstep = "returned"
    /\ frame.columns = <<"id", "tags", "geometry">>

\* ------------------------------------------------- claims: the batch, more
\* a query suspended in acquire that no release has handed a permit to yet
Waiting == {q \in Queries : pc[q] = "pending" /\ Started(q) /\ q \notin woken}

\* how a coroutine can end
Succeeded(q) == outcome[q] = ReturnedData(q)
Exhausted(q) == outcome[q] = ReturnedNone /\ attempts[q] = queries[q].max_retries
Failed(q) == IsRaised(outcome[q])

\* C25 (as claimed): under fairness run_all terminates, every query waiting
\* for a permit is eventually admitted, and every admitted query eventually
\* reaches success or retry exhaustion.
C25_EndsInSuccessOrExhaustion ==
    /\ \A q \in Queries : (q \in Waiting) ~> (pc[q] # "pending")
    /\ <>[](/\ runAll # "gathering"
            /\ \A q \in Queries :
                  /\ pc[q] = "done"
                  /\ Succeeded(q) \/ Exhausted(q))

\* C25 (amended): under fairness run_all terminates, by returning or by
\* raising; every query waiting for a permit is eventually admitted; every
\* admitted query eventually ends after at most max_retries attempts - with
\* success, with retry exhaustion, or with an exception of its own (the
\* ValueError of a spec without location, a non-client exception of an
\* attempt) - and run_all returns only if no query ended with an exception.
C25_BatchTerminates ==
    /\ \A q \in Queries : (q \in Waiting) ~> (pc[q] # "pending")
    /\ <>[](/\ runAll \in {"returned", "raised"}
            /\ runAll = "returned" <=> \A q \in Queries : ~Failed(q)
            /\ \A q \in Queries :
                  /\ pc[q] = "done"
                  /\ attempts[q] <= queries[q].max_retries
                  /\ Succeeded(q) \/ Exhausted(q) \/ Failed(q))

\* run_all returned from a client with a single permit: the second and the
\* third query waited for it together, were admitted one after the other, and
\* each query used up its attempts
C25_Witness ==
    /\ runAll = "returned"
    /\ max_concurrent = 1
    /\ finished[NumQueries] = NumQueries
    /\ \A q \in Queries : Exhausted(q) /\ attempts[q] = MaxRetriesBound

\* ------------------------------------------- claims: the single call, more
ExpectedKind(f) ==
    CASE f.output = "csv" -> "DataFrame"
      [] f.output = "json" /\ ~f.parse_geometry -> "dict"
      [] f.output = "json" /\ f.parse_geometry -> "GeoDataFrame"
      [] OTHER -> "text"

\* C22: a call that returns data, be it run or _run_query, returns the kind of
\* result that (output, parse_geometry) fix: tabular rows for csv, the decoded
\* payload for json without parse_geometry, the decoded records for json with
\* parse_geometry - whatever the body holds.
C22_ShapeFromOutputAndParseGeometry ==
    /\ result = ReturnedData(0) <=> shape # NoShape
    /\ shape # NoShape => shape.kind = ExpectedKind(fmt)

\* run turned a 200 answer holding elements into tabular rows, because output
\* is csv
C22_Witness ==
    /\ call = "run"
    /\ fmt.output = "csv"
    /\ result = ReturnedData(0)
    /\ shape = [kind |-> "DataFrame", of |-> "elements"]

AttemptMade == trace # <<>> \/ step \in {"request", "retry_sleep"}

\* C23: in run, a query attempt is made only after the gate has passed, no
\* status probe is issued once the first attempt is under way, and a slot
\* timeout ends the call with no attempt made.
C23_GateOnceBeforeFirstAttempt ==
    /\ [](call = "run" =>
            /\ AttemptMade => (ReportsAvailable(lastProbe) /\ polls >= 1)
            /\ AttemptMade => step # "probe" /\ step # "slot_sleep"
            /\ TimedOut => (trace = <<>> /\ step = "done"))
    /\ [][(call = "run" /\ AttemptMade) => (polls' = polls /\ lastProbe' = lastProbe)]_vars

\* run passed the gate at its second probe, then made two attempts
C23_Witness ==
    /\ call = "run"
    /\ polls = 2
    /\ Len(trace) = 2
    /\ step = "done"

\* C24: once a probe has observed availability the gate is over: it does not
\* sleep, does not probe again and does not raise the timeout; _wait_for_slot
\* has returned.
C24_AvailabilityEndsGateAtOnce ==
    ReportsAvailable(lastProbe) =>
        /\ step \notin {"probe", "slot_sleep"}
        /\ ~TimedOut
        /\ call = "_wait_for_slot" => (step = "done" /\ result = ReturnedNone)
        /\ waited = (polls - 1) * PollInterval
        /\ waited < max_wait

\* the third probe observed availability one interval before max_wait
C24_Witness ==
    /\ call = "_wait_for_slot"
    /\ polls = 3
    /\ waited = 2 * PollInterval
    /\ max_wait = 2 * PollInterval + 1
    /\ ReportsAvailable(lastProbe)
    /\ step = "done"

\* C27: a retry_delay sleep starts only when another attempt follows it, so a
\* call sleeps at most max_retries - 1 times and does not sleep after its last
\* permitted attempt.
C27_SleepOnlyBetweenAttempts ==
    call \in {"run", "_run_query"} =>
        /\ step = "retry_sleep" => Len(trace) < self.max_retries
        /\ self.max_retries >= 1 => sleeps <= self.max_retries - 1

\* ------------------------------------------------------ claims: the tool
\* C26: query_region returns count = 0 and features = [] both when the query
\* ended in the sentinel and when it succeeded with no decoded element, and in
\* every result count is the number of features.
C26_NoResultAndZeroMatchesAlike ==
    /\ tstep = "returned" => tresult.count = Len(tresult.features)
    /\ (underlying = "None" /\ tstep \notin {"called", "classify"}) =>
          (tstep = "returned" /\ tresult = [count |-> 0, features |-> <<>>])
    /\ (underlying = "GeoDataFrame" /\ frame.rows = <<>> /\ tstep # "classify") =>
          (tstep = "returned" /\ tresult = [count |-> 0, features |-> <<>>])

\* the query succeeded on a payload with an empty element list and the tool
\* returned the result it also returns for the sentinel
C26_Witness ==
    /\ tstep = "returned"
    /\ underlying = "GeoDataFrame"
    /\ osm_json = Payload(TRUE, <<>>)
    /\ tresult = [count |-> 0, features |-> <<>>]

\* --------------------------------------------- claims: the Google service
Retryable(out) ==
    out.kind = "HttpError" /\ out.status \in {0, 429, 500, 502, 503, 504}
GoogleDone == gstep \in {"returned", "raised"}

\* C29: func is called at most MAX_RETRIES times; a success is returned at
\* once; an HttpError with a status outside {429, 500, 502, 503, 504} or any
\* other exception is re-raised after that call with no sleep; a retryable
\* HttpError on every call is re-raised after exactly MAX_RETRIES calls; one
\* backoff sleep lies between consecutive calls, its base delay doubling.
C29_BoundedRetriesWithBackoff ==
    /\ Len(gcalls) <= MAX_RETRIES
    /\ \A i \in 1..(Len(gcalls) - 1) : Retryable(gcalls[i])
    /\ Len(gsleeps) = (IF GoogleDone THEN Len(gcalls) - 1 ELSE Len(gcalls))
    /\ \A i \in DOMAIN gsleeps :
          /\ gsleeps[i] = (IF i = 1 THEN INITIAL_BACKOFF ELSE 2 * gsleeps[i - 1])
    /\ gstep = "sleep" => Retryable(gcalls[Len(gcalls)]) /\ Len(gcalls) < MAX_RETRIES
    /\ gstep = "returned" => gcalls[Len(gcalls)].kind = "ok" /\ gresult = "value"
    /\ gstep = "raised" =>
          /\ gcalls[Len(gcalls)].kind # "ok"
          /\ gresult = gcalls[Len(gcalls)].kind
          /\ Retryable(gcalls[Len(gcalls)]) => Len(gcalls) = MAX_RETRIES

\* every call met a retryable HttpError; it was raised after the fifth call
\* and four sleeps
C29_Witness ==
    /\ gstep = "raised"
    /\ Len(gcalls) = MAX_RETRIES
    /\ \A i \in DOMAIN gcalls : Retryable(gcalls[i])
    /\ gsleeps = <<1, 2, 4, 8>>

\* ------------------------------------------------------- claims: the news
\* C30: after main completes, every item the search returned is in the table
\* exactly once: as many rows were inserted as items were returned.
C30_EachItemInsertedOnce ==
    nstep = "done" =>
        /\ Len(table) = Len(results_)
        /\ \A i \in DOMAIN results_ :
              Cardinality({k \in DOMAIN table : table[k].item = i}) = 1

====
